---- MODULE Spec2Model ----
(***************************************************************************)
(* Model of inventory_system.py: a module-level dict stock_data mapping    *)
(* item names to quantities, mutated by add_item / remove_item, queried by *)
(* get_qty / check_low_items, and persisted by save_data / load_data as a  *)
(* JSON object in one file.                                                *)
(*                                                                         *)
(* Python values are modelled with their runtime type, because the code    *)
(* validates with isinstance(): a value is a record [t, v] where t is the  *)
(* type name and v the numeric value (bool is a subclass of int in Python, *)
(* so True has v = 1 and False has v = 0).  Item names are sequences of    *)
(* characters so that str.strip() is computed, not assumed.                *)
(***************************************************************************)
EXTENDS Integers, Sequences, FiniteSets, TLC

VARIABLES stock_data, file, last

vars == <<stock_data, file, last>>

(* ------------------------------ bounds --------------------------------- *)

\* largest quantity / threshold passed as an argument
MaxQty == 1
\* largest quantity an item may reach through add_item (caps the counter)
MaxStock == 2

(* --------------------------- Python values ----------------------------- *)

PyInt(n) == [t |-> "int", v |-> n]
PyBool(b) == [t |-> "bool", v |-> IF b THEN 1 ELSE 0]
\* a float such as 1.5; v is its integer part and never reaches arithmetic
PyFloat == [t |-> "float", v |-> 1]
PyStr == [t |-> "str", v |-> 0]
PyList == [t |-> "list", v |-> 0]
PyNone == [t |-> "NoneType", v |-> 0]

\* isinstance(x, int): true of int and of its subclass bool
IsInstanceInt(x) == x.t \in {"int", "bool"}

(* ----------------------------- item names ------------------------------ *)

Whitespace == {" "}

Names == {<< >>, <<" ">>, <<"a">>, <<"b">>}

SetMin(S) == CHOOSE x \in S : \A y \in S : x <= y
SetMax(S) == CHOOSE x \in S : \A y \in S : x >= y

\* str.strip(): drop leading and trailing whitespace
strip(s) ==
    LET idx == {i \in 1..Len(s) : s[i] \notin Whitespace}
    IN  IF idx = {} THEN << >> ELSE SubSeq(s, SetMin(idx), SetMax(idx))

\* an item argument: a str carrying its characters, or a value of another type
StrItem(s) == [t |-> "str", s |-> s]
NonStrItem == [t |-> "int", s |-> << >>]
NoItem == [t |-> "NoneType", s |-> << >>]

ItemArgs == {StrItem(s) : s \in Names} \cup {NonStrItem}

\* not isinstance(item, str) or not item.strip()
BadItem(item) == item.t # "str" \/ strip(item.s) = << >>

QtyArgs == {PyInt(n) : n \in -1..MaxQty}
             \cup {PyBool(TRUE), PyBool(FALSE), PyFloat}

(* ----------------------------- dictionaries ---------------------------- *)

EmptyDict == [k \in {} |-> PyNone]

\* d[k] = val
DictSet(d, k, val) ==
    [x \in DOMAIN d \cup {k} |-> IF x = k THEN val ELSE d[x]]

\* del d[k]
DictDel(d, k) == [x \in DOMAIN d \ {k} |-> d[x]]

\* d.get(k, 0)
DictGet(d, k) == IF k \in DOMAIN d THEN d[k] ELSE PyInt(0)

(* ------------------------------ outcomes ------------------------------- *)

\* what a call leaves behind: the dict, how it ended, and what it returned
Outcome(inv, result, ret, low) ==
    [inv |-> inv, result |-> result, ret |-> ret, low |-> low]

Raise(inv, exc) == Outcome(inv, exc, PyNone, {})
Return(inv, ret) == Outcome(inv, "ok", ret, {})

(* ------------------------------ add_item ------------------------------- *)

\* mutation first, qty validation afterwards
add_item_late_check(inv, item, qty) ==
    IF BadItem(item) THEN Raise(inv, "ValueError")
    ELSE IF ~IsInstanceInt(qty) THEN Raise(inv, "ValueError")
    ELSE IF qty.v < 0
         THEN Raise(DictSet(inv, item.s, PyInt(DictGet(inv, item.s).v + qty.v)),
                    "ValueError")
    ELSE Return(DictSet(inv, item.s, PyInt(DictGet(inv, item.s).v + qty.v)),
                PyNone)

\* stock_data[item] = qty, forgetting the current quantity
add_item_overwrite(inv, item, qty) ==
    IF BadItem(item) THEN Raise(inv, "ValueError")
    ELSE IF ~IsInstanceInt(qty) \/ qty.v < 0 THEN Raise(inv, "ValueError")
    ELSE Return(DictSet(inv, item.s, PyInt(qty.v)), PyNone)

add_item(inv, item, qty) ==
    IF BadItem(item) THEN Raise(inv, "ValueError")
    ELSE IF ~IsInstanceInt(qty) \/ qty.v < 0 THEN Raise(inv, "ValueError")
    ELSE LET current == DictGet(inv, item.s)
         IN  Return(DictSet(inv, item.s, PyInt(current.v + qty.v)), PyNone)

(* ----------------------------- remove_item ----------------------------- *)

\* no clamping
NoClamp(n) == n

\* max(new_qty, 0)
Clamp(n) == IF n > 0 THEN n ELSE 0

\* the entry stays even when it reached zero
KeepZero(inv, k) == inv

\* if stock_data[item] == 0: del stock_data[item]
DropZero(inv, k) == IF inv[k].v = 0 THEN DictDel(inv, k) ELSE inv

\* presence check ahead of the qty validation
remove_item_presence_first(inv, item, qty) ==
    IF BadItem(item) THEN Raise(inv, "ValueError")
    ELSE IF item.s \notin DOMAIN inv THEN Raise(inv, "KeyError")
    ELSE IF ~IsInstanceInt(qty) \/ qty.v <= 0 THEN Raise(inv, "ValueError")
    ELSE LET new_qty == inv[item.s].v - qty.v
         IN  Return(DropZero(DictSet(inv, item.s, PyInt(Clamp(new_qty))),
                             item.s), PyNone)

remove_item(inv, item, qty) ==
    IF BadItem(item) THEN Raise(inv, "ValueError")
    ELSE IF ~IsInstanceInt(qty) \/ qty.v <= 0 THEN Raise(inv, "ValueError")
    ELSE IF item.s \notin DOMAIN inv THEN Raise(inv, "KeyError")
    ELSE LET new_qty == inv[item.s].v - qty.v
         IN  Return(DropZero(DictSet(inv, item.s, PyInt(Clamp(new_qty))),
                             item.s), PyNone)

(* ------------------------------- get_qty ------------------------------- *)

\* stock_data.setdefault(item, 0): the lookup creates the key
get_qty_setdefault(inv, item) ==
    IF BadItem(item) THEN Raise(inv, "ValueError")
    ELSE Return(DictSet(inv, item.s, DictGet(inv, item.s)),
                DictGet(inv, item.s))

get_qty(inv, item) ==
    IF BadItem(item) THEN Raise(inv, "ValueError")
    ELSE Return(inv, DictGet(inv, item.s))

(* --------------------------- check_low_items --------------------------- *)

check_low_items(inv, threshold) ==
    IF ~IsInstanceInt(threshold) \/ threshold.v < 0
    THEN Raise(inv, "ValueError")
    ELSE Outcome(inv, "ok", PyNone,
                 {k \in DOMAIN inv : inv[k].v < threshold.v})

(* ------------------------------- JSON ---------------------------------- *)

\* a JSON value as written in the file
JNumber(n) == [j |-> "number", v |-> n]
\* a number written with a fraction or an exponent, e.g. 1.5
JReal == [j |-> "real", v |-> 1]
JTrue == [j |-> "true", v |-> 1]
JFalse == [j |-> "false", v |-> 0]
JNull == [j |-> "null", v |-> 0]
JString == [j |-> "string", v |-> 0]
JArray == [j |-> "array", v |-> 0]

\* json.load on one value: the Python object the decoder builds
json_decode(x) ==
    CASE x.j = "number" -> PyInt(x.v)
      [] x.j = "real"   -> PyFloat
      [] x.j = "true"   -> PyBool(TRUE)
      [] x.j = "false"  -> PyBool(FALSE)
      [] x.j = "null"   -> PyNone
      [] x.j = "string" -> PyStr
      [] x.j = "array"  -> PyList

\* json.dump on one value of the dict: bool is written as true/false
json_encode(val) ==
    IF val.t = "bool" THEN (IF val.v = 1 THEN JTrue ELSE JFalse)
    ELSE JNumber(val.v)

\* the state of the file at file_path
NoObject == [k \in {} |-> JNull]
Missing == [k |-> "missing", obj |-> NoObject]
\* present, but open(file_path, "r") raises an OSError other than
\* FileNotFoundError (PermissionError, IsADirectoryError)
Unreadable == [k |-> "unreadable", obj |-> NoObject]
\* present, but not valid JSON
Garbage == [k |-> "garbage", obj |-> NoObject]
\* valid JSON whose top-level value is not an object
NonObject == [k |-> "nonobject", obj |-> NoObject]
ObjectFile(obj) == [k |-> "object", obj |-> obj]
\* present and readable, never written by this process: its content is
\* whatever the environment left there, fixed only when it is read
OnDisk == [k |-> "ondisk", obj |-> NoObject]
\* no file has been read
NoRead == [k |-> "none", obj |-> NoObject]

(* ------------------------------ load_data ------------------------------ *)

\* v > 0 in place of v >= 0
KeepPositive(key, val) == IsInstanceInt(val) /\ val.v > 0

\* isinstance(k, str) and isinstance(v, int) and v >= 0
\* (every key of a decoded JSON object is a str)
Keep(key, val) == IsInstanceInt(val) /\ val.v >= 0

\* the dict comprehension over data.items()
cleaned(obj) ==
    [k \in {x \in DOMAIN obj : Keep(x, json_decode(obj[x]))}
        |-> json_decode(obj[k])]

load_data(inv, f) ==
    CASE f.k = "missing"    -> Outcome(EmptyDict, "ok", PyNone, {})
      [] f.k = "unreadable" -> Raise(inv, "OSError")
      [] f.k = "garbage"    -> Outcome(EmptyDict, "ok", PyNone, {})
      [] f.k = "nonobject"  -> Outcome(EmptyDict, "ok", PyNone, {})
      [] f.k = "object"     -> Outcome(cleaned(f.obj), "ok", PyNone, {})

(* ------------------------------ save_data ------------------------------ *)

\* json.dump(stock_data, f): every entry, value by value
json_dump(inv) == [k \in DOMAIN inv |-> json_encode(inv[k])]

\* the file after a call of save_data; writable says whether
\* open(file_path, "w") succeeds
save_data(inv, f, writable) ==
    IF ~writable THEN f
    ELSE IF f.k = "unreadable" THEN f
    ELSE ObjectFile(json_dump(inv))

(* ------------------------------- state --------------------------------- *)

\* the keys and values a JSON object found on disk may hold
FileKeys == {<<" ">>, <<"a">>}

FileValues ==
    {JNumber(n) : n \in {-1, 0, 1}}
        \cup {JReal, JTrue, JFalse, JNull, JString, JArray}

FileObjects == UNION {[D -> FileValues] : D \in SUBSET FileKeys}

\* what open() and json.load() may find in a file the environment wrote
DiskContents == {Garbage, NonObject} \cup {ObjectFile(o) : o \in FileObjects}

\* the last call: its name, how it ended, what it returned, the file
\* load_data read, and whether it directly followed a successful save_data
Call(op, out, read, afterSave) ==
    [op |-> op, result |-> out.result, ret |-> out.ret, low |-> out.low,
     read |-> read, afterSave |-> afterSave]

Init ==
    /\ stock_data = EmptyDict
    /\ file \in {Missing, Unreadable, OnDisk}
    /\ last = Call("init", Return(EmptyDict, PyNone), NoRead, FALSE)

\* every quantity stays within the bound of the model
Bounded(inv) == \A k \in DOMAIN inv : inv[k].v <= MaxStock

Add(item, qty) ==
    LET out == add_item(stock_data, item, qty)
    IN  /\ Bounded(out.inv)
        /\ stock_data' = out.inv
        /\ last' = Call("add", out, NoRead, FALSE)
        /\ UNCHANGED file

Remove(item, qty) ==
    LET out == remove_item(stock_data, item, qty)
    IN  /\ stock_data' = out.inv
        /\ last' = Call("remove", out, NoRead, FALSE)
        /\ UNCHANGED file

GetQty(item) ==
    LET out == get_qty(stock_data, item)
    IN  /\ stock_data' = out.inv
        /\ last' = Call("get_qty", out, NoRead, FALSE)
        /\ UNCHANGED file

CheckLowItems(threshold) ==
    LET out == check_low_items(stock_data, threshold)
    IN  /\ stock_data' = out.inv
        /\ last' = Call("check_low_items", out, NoRead, FALSE)
        /\ UNCHANGED file

\* the files load_data may find at file_path in the current state
Readable == IF file.k = "ondisk" THEN DiskContents ELSE {file}

Load ==
    \E f \in Readable :
        LET out == load_data(stock_data, f)
        IN  /\ stock_data' = out.inv
            /\ last' = Call("load", out, f,
                            last.op = "save" /\ last.result = "ok")
            /\ UNCHANGED file

Save(writable) ==
    /\ file' = save_data(stock_data, file, writable)
    /\ last' = Call("save",
                    IF writable THEN Return(stock_data, PyNone)
                    ELSE Raise(stock_data, "OSError"),
                    NoRead, FALSE)
    /\ UNCHANGED stock_data

Next ==
    \/ \E item \in ItemArgs, qty \in QtyArgs : Add(item, qty)
    \/ \E item \in ItemArgs, qty \in QtyArgs : Remove(item, qty)
    \/ \E item \in ItemArgs : GetQty(item)
    \/ \E threshold \in QtyArgs : CheckLowItems(threshold)
    \/ Load
    \/ \E writable \in BOOLEAN : Save(writable)

Spec == Init /\ [][Next]_vars

(* ------------------------------ properties ----------------------------- *)

\* the item arguments that pass validation (a str that is not blank)
ValidItems == {item \in ItemArgs : ~BadItem(item)}
\* the quantities add_item accepts, and those remove_item accepts
NonNegative == {qty \in QtyArgs : IsInstanceInt(qty) /\ qty.v >= 0}
Positive == {qty \in QtyArgs : IsInstanceInt(qty) /\ qty.v > 0}
Failed(out) == out.result \in {"ValueError", "KeyError"}
ZeroEntries(inv) == {k \in DOMAIN inv : inv[k].v = 0}

\* C1: in every reachable state, whatever calls of add, remove, get_quantity,
\* list_low_stock, save and load led to it (failed ones and any file content
\* included), no key of the inventory maps to a value below 0.
C1_NoNegativeQuantity ==
    \A k \in DOMAIN stock_data : stock_data[k].v >= 0

\* a load of a file holding a negative entry has left other entries behind
C1_Witness ==
    /\ last.op = "load"
    /\ \E k \in DOMAIN last.read.obj : last.read.obj[k] = JNumber(-1)
    /\ stock_data # EmptyDict

\* C2 as stated: after a successful remove the map holds no entry of value 0.
C2_NoZeroEntryAfterRemove ==
    (last.op = "remove" /\ last.result = "ok") => ZeroEntries(stock_data) = {}

\* C2 as amended: a successful remove(item, qty) never leaves the removed
\* item in the map with value 0, and it creates no entry of value 0: the
\* entries of value 0 afterwards are those other items already had.
C2_RemovedItemNotZero ==
    \A item \in ItemArgs, qty \in QtyArgs :
        LET out == remove_item(stock_data, item, qty)
        IN  out.result = "ok" =>
                /\ item.s \notin ZeroEntries(out.inv)
                /\ ZeroEntries(out.inv) = ZeroEntries(stock_data) \ {item.s}

\* a successful remove has completed and an entry of value 0 is in the map
C2_Witness ==
    /\ last.op = "remove"
    /\ last.result = "ok"
    /\ ZeroEntries(stock_data) # {}

\* C3 as stated: remove of an item (a valid, non-blank name) absent from the
\* inventory fails with KeyError for every value of qty.
C3_AbsentAlwaysKeyError ==
    \A item \in ValidItems, qty \in QtyArgs :
        item.s \notin DOMAIN stock_data =>
            remove_item(stock_data, item, qty).result = "KeyError"

\* C3 as amended: remove of an item (a valid, non-blank name) absent from the
\* inventory always fails,
\* with KeyError when qty is an integer > 0 and with ValueError when qty is
\* not (qty is validated before the presence check).
C3_AbsentKeyErrorForValidQty ==
    \A item \in ValidItems, qty \in QtyArgs :
        item.s \notin DOMAIN stock_data =>
            remove_item(stock_data, item, qty).result =
                IF qty \in Positive THEN "KeyError" ELSE "ValueError"

\* a remove has failed with KeyError while other items were in stock
C3_Witness ==
    /\ last.op = "remove"
    /\ last.result = "KeyError"
    /\ stock_data # EmptyDict

\* C4: load never raises, whatever the condition of the file (missing,
\* unreadable, not JSON, not an object, object with invalid entries), and
\* leaves the inventory empty when the file is missing, not JSON or not an
\* object.
C4_LoadNeverRaises ==
    last.op = "load" =>
        /\ last.result = "ok"
        /\ last.read.k \in {"missing", "garbage", "nonobject"}
               => stock_data = EmptyDict

\* C5: after load of a file holding a JSON object, the inventory is exactly
\* the object's entries whose value is a non-negative integer, each with its
\* value; negative numbers, strings, booleans, null, floats and nested
\* values are dropped, and nothing of the previous inventory survives.
C5_LoadKeepsNonNegativeIntegers ==
    (last.op = "load" /\ last.read.k = "object") =>
        LET obj == last.read.obj
            kept == {k \in DOMAIN obj : obj[k].j = "number" /\ obj[k].v >= 0}
        IN  /\ last.result = "ok"
            /\ stock_data = [k \in kept |-> PyInt(obj[k].v)]

\* C6: for every item present with quantity q and every integer r > 0,
\* remove(item, r) succeeds; the item's quantity becomes q - r when r < q,
\* the item is deleted when r >= q, and all other items are unchanged.
C6_RemovePresentSucceeds ==
    \A k \in DOMAIN stock_data, qty \in Positive :
        LET out == remove_item(stock_data, StrItem(k), qty)
            q == stock_data[k].v
        IN  /\ out.result = "ok"
            /\ out.inv = IF qty.v < q
                         THEN DictSet(stock_data, k, PyInt(q - qty.v))
                         ELSE DictDel(stock_data, k)

\* C7: in every reachable state, a successful save followed at once by a load
\* of the same path leaves the inventory as it was before the save: same
\* keys, same quantities.
C7_SaveLoadRoundTrip ==
    LET saved == save_data(stock_data, file, TRUE)
    IN  \A f \in (IF saved.k = "ondisk" THEN DiskContents ELSE {saved}) :
            load_data(stock_data, f).inv = stock_data

\* a load has directly followed a successful save, of two items, one of
\* them with quantity 0
C7_Witness ==
    /\ last.op = "load"
    /\ last.afterSave
    /\ last.result = "ok"
    /\ last.read = ObjectFile(json_dump(stock_data))
    /\ Cardinality(DOMAIN stock_data) >= 2
    /\ ZeroEntries(stock_data) # {}

\* C8: every successful add(item, qty) sets the item's quantity to its
\* previous quantity (0 if absent) plus qty, creating the key if absent,
\* never decreasing it, and leaves all other items unchanged; two adds of
\* qty1 and qty2 to an absent item leave it at qty1 + qty2.
C8_AddAccumulates ==
    \A item \in ItemArgs, qty \in QtyArgs :
        LET out == add_item(stock_data, item, qty)
            before == IF item.s \in DOMAIN stock_data
                      THEN stock_data[item.s].v ELSE 0
        IN  out.result = "ok" =>
                /\ qty \in NonNegative
                /\ DOMAIN out.inv = DOMAIN stock_data \cup {item.s}
                /\ out.inv[item.s] = PyInt(before + qty.v)
                /\ out.inv[item.s].v >= before
                /\ \A k \in DOMAIN stock_data \ {item.s} :
                       out.inv[k] = stock_data[k]
                /\ \A qty2 \in NonNegative :
                       item.s \notin DOMAIN stock_data =>
                           add_item(out.inv, item, qty2).inv[item.s]
                               = PyInt(qty.v + qty2.v)

\* an add has succeeded and raised one item to 2 or more beside another item
C8_Witness ==
    /\ last.op = "add"
    /\ last.result = "ok"
    /\ Cardinality(DOMAIN stock_data) >= 2
    /\ \E k \in DOMAIN stock_data : stock_data[k].v >= 2

\* C9: get_quantity of an item (a valid, non-blank name) absent from the
\* inventory returns 0; get_quantity never raises KeyError, whatever its
\* argument, and never changes the inventory: no key is created and every
\* entry stays as it was.
C9_GetQtyAbsentIsZero ==
    \A item \in ItemArgs :
        LET out == get_qty(stock_data, item)
        IN  /\ out.inv = stock_data
            /\ out.result # "KeyError"
            /\ (item \in ValidItems /\ item.s \notin DOMAIN stock_data)
                   => (out.result = "ok" /\ out.ret = PyInt(0))

\* a get_qty has returned 0 while the only item in stock has a positive
\* quantity: the item asked for was absent
C9_Witness ==
    /\ last.op = "get_qty"
    /\ last.result = "ok"
    /\ last.ret = PyInt(0)
    /\ stock_data # EmptyDict
    /\ ZeroEntries(stock_data) = {}

\* C10: whenever add, remove, get_quantity or list_low_stock fails with
\* ValueError or KeyError, the inventory after the call is the inventory
\* before it.
C10_FailedCallChangesNothing ==
    /\ \A item \in ItemArgs, qty \in QtyArgs :
           /\ Failed(add_item(stock_data, item, qty))
                  => add_item(stock_data, item, qty).inv = stock_data
           /\ Failed(remove_item(stock_data, item, qty))
                  => remove_item(stock_data, item, qty).inv = stock_data
    /\ \A item \in ItemArgs :
           Failed(get_qty(stock_data, item))
               => get_qty(stock_data, item).inv = stock_data
    /\ \A threshold \in QtyArgs :
           Failed(check_low_items(stock_data, threshold))
               => check_low_items(stock_data, threshold).inv = stock_data

\* a call has failed while two items were in stock
C10_Witness ==
    /\ last.op \in {"add", "remove", "get_qty", "check_low_items"}
    /\ last.result \in {"ValueError", "KeyError"}
    /\ Cardinality(DOMAIN stock_data) >= 2

====
